---------------------------- MODULE Spec2Model ----------------------------
(***************************************************************************)
(* Keyword detection browser extension: KeywordDetector (two revisions of  *)
(* the scanner: src/content/detector.js and src/unnamed/part_001),         *)
(* PageAnnotator (src/unnamed/part_003), ContentScriptManager              *)
(* (src/content/content.js) and NetworkMonitor (src/content/detector.js).  *)
(*                                                                         *)
(* Strings are sequences of one-character strings, so that toLowerCase,    *)
(* trim and includes are computed rather than assumed.  Characters outside *)
(* ASCII are written as their code point ("U5173").                        *)
(***************************************************************************)
EXTENDS Integers, Sequences, FiniteSets, TLC

(***************************************************************************)
(* Bounds of the model.                                                    *)
(***************************************************************************)
\* Click listeners one element may carry.
MaxListeners == 2
\* handleStartScan invocations that may wait on storage at the same time.
MaxPending == 1
\* Outbound network calls observed in one run of the interceptor model.
MaxCalls == 1
MaxStarts == 2
\* Clicks on annotated elements in one run of the highlight model.
MaxClicks == 3

(***************************************************************************)
(* String primitives.                                                      *)
(***************************************************************************)
UpperChars == <<"A", "B", "C", "D", "E", "F", "G", "H", "I", "J", "K", "L", "M",
                "N", "O", "P", "Q", "R", "S", "T", "U", "V", "W", "X", "Y", "Z">>
LowerChars == <<"a", "b", "c", "d", "e", "f", "g", "h", "i", "j", "k", "l", "m",
                "n", "o", "p", "q", "r", "s", "t", "u", "v", "w", "x", "y", "z">>

ToLowerChar(c) ==
    IF \E i \in 1..Len(UpperChars) : UpperChars[i] = c
    THEN LowerChars[CHOOSE i \in 1..Len(UpperChars) : UpperChars[i] = c]
    ELSE c

toLowerCase(s) == [i \in 1..Len(s) |-> ToLowerChar(s[i])]

includes(s, t) ==
    \E i \in 0..(Len(s) - Len(t)) : SubSeq(s, i + 1, i + Len(t)) = t

startsWith(s, t) == Len(t) <= Len(s) /\ SubSeq(s, 1, Len(t)) = t

RECURSIVE trimStart(_)
trimStart(s) == IF s # <<>> /\ Head(s) = " " THEN trimStart(Tail(s)) ELSE s

RECURSIVE trimEnd(_)
trimEnd(s) ==
    IF s # <<>> /\ s[Len(s)] = " " THEN trimEnd(SubSeq(s, 1, Len(s) - 1)) ELSE s

trim(s) == trimEnd(trimStart(s))

RECURSIVE Concat(_)
Concat(ss) == IF ss = <<>> THEN <<>> ELSE Head(ss) \o Concat(Tail(ss))

Range(s) == {s[i] : i \in 1..Len(s)}

Digits == <<"0", "1", "2", "3", "4", "5", "6", "7", "8", "9">>

RECURSIVE NumberToString(_)
NumberToString(n) ==
    IF n < 10 THEN <<Digits[n + 1]>>
    ELSE NumberToString(n \div 10) \o <<Digits[(n % 10) + 1]>>

(***************************************************************************)
(* Text of the pages and keyword lists the model runs on.                  *)
(***************************************************************************)
kw_casino == <<"c", "a", "s", "i", "n", "o">>
kw_bet == <<"b", "e", "t">>
kw_Casino_sp == <<" ", "C", "a", "s", "i", "n", "o", " ">>
kw_blank == <<" ", " ">>

n_href == <<"h", "r", "e", "f">>
n_src == <<"s", "r", "c">>
n_alt == <<"a", "l", "t">>
n_title == <<"t", "i", "t", "l", "e">>
n_value == <<"v", "a", "l", "u", "e">>
n_placeholder == <<"p", "l", "a", "c", "e", "h", "o", "l", "d", "e", "r">>
n_data_testid == <<"d", "a", "t", "a", "-", "t", "e", "s", "t", "i", "d">>
n_data_url == <<"d", "a", "t", "a", "-", "u", "r", "l">>

t_Casino == <<"C", "a", "s", "i", "n", "o">>
t_bet_casino_now ==
    <<" ", "b", "e", "t", " ", "c", "a", "s", "i", "n", "o", " ", "n", "o", "w">>
t_click == <<"C", "l", "i", "c", "k">>
t_pic == <<"p", "i", "c">>
t_x == <<"x">>
v_url == <<"x", ".", "c", "o", "m", "/", "c", "a", "s", "i", "n", "o">>
v_css == <<"c", "a", "s", "i", "n", "o", ".", "c", "s", "s">>
v_png == <<"a", ".", "p", "n", "g">>
v_casino_com == <<"c", "a", "s", "i", "n", "o", ".", "c", "o", "m">>

Attr(n, v) == [name |-> n, value |-> v]

\* An element of the page: tag name as the DOM reports it, whether it lives in
\* the SVG namespace, its text-node children and its attributes.
Element(tag, svg, texts, attrs) ==
    [tag |-> tag, svg |-> svg, texts |-> texts, attrs |-> attrs]

\* <a href="x.com/casino">Casino</a> <p>casino<br> bet casino now</p>
\* <script>casino</script>
DocText ==
    << Element("A", FALSE, <<t_Casino>>, <<Attr(n_href, v_url)>>),
       Element("P", FALSE, <<kw_casino, t_bet_casino_now>>, <<>>),
       Element("SCRIPT", FALSE, <<kw_casino>>, <<>>) >>

\* <link href="casino.css"> <div data-testid="casino" data-url="casino.com"></div>
\* <img alt="pic" title="casino" src="a.png">
DocAttrs ==
    << Element("LINK", FALSE, <<>>, <<Attr(n_href, v_css)>>),
       Element("DIV", FALSE, <<>>,
               <<Attr(n_data_testid, kw_casino), Attr(n_data_url, v_casino_com)>>),
       Element("IMG", FALSE, <<>>,
               <<Attr(n_alt, t_pic), Attr(n_title, kw_casino), Attr(n_src, v_png)>>) >>

\* <input value="x" placeholder="casino"> <label>casino</label>
DocForm ==
    << Element("INPUT", FALSE, <<>>,
               <<Attr(n_value, t_x), Attr(n_placeholder, kw_casino)>>),
       Element("LABEL", FALSE, <<kw_casino>>, <<>>) >>

\* <a href="x.com/casino">Click</a>: the keyword only in the address.
DocAnchor ==
    << Element("A", FALSE, <<t_click>>, <<Attr(n_href, v_url)>>),
       Element("P", FALSE, <<t_click>>, <<>>) >>

\* <p>casino</p> <svg><a href="x.com/casino">Click</a></svg>
\* <input placeholder="casino">
DocSvg ==
    << Element("P", FALSE, <<kw_casino>>, <<>>),
       Element("a", TRUE, <<t_click>>, <<Attr(n_href, v_url)>>),
       Element("INPUT", FALSE, <<>>, <<Attr(n_placeholder, kw_casino)>>) >>

Docs == {DocText, DocAttrs, DocForm, DocAnchor, DocSvg}

\* Raw keyword lists a setKeywords message may carry.
KeywordInputs ==
    { <<kw_casino>>, <<kw_blank, kw_Casino_sp, kw_bet, kw_bet>> }

Revisions == {"detector.js", "part_001"}


(***************************************************************************)
(* State.                                                                  *)
(***************************************************************************)
VARIABLES
    rev,               \* which revision of KeywordDetector the page loaded
    doc,               \* the page: a sequence of elements, in document order
    \* --- KeywordDetector
    keywords,          \* this.keywords
    detectionResults,  \* this.detectionResults
    isDetecting,       \* this.isDetecting
    scanStep,          \* passes the in-flight detectKeywords has awaited (0: none in flight)
    scanThrown,        \* a pass of the in-flight detectKeywords has thrown
    \* --- PageAnnotator and the part of the DOM it writes
    annotations,       \* this.annotations, in insertion order
    isEnabled,         \* this.isEnabled
    annotationCounter, \* this.annotationCounter
    classList,         \* element -> set of class names
    children,          \* element -> injected child nodes, in append order
    injected,          \* attached injected node -> [kind, text]
    listeners,         \* element -> click listeners registered on it
    kwHandler,         \* element -> element._keywordClickHandler (0: not set)
    \* --- ContentScriptManager
    currentResults,    \* this.currentResults
    pending,           \* handleStartScan invocations waiting on storage
    \* --- NetworkMonitor and the primitives it replaces
    isMonitoring, requestResults,
    originalFetch, originalXHROpen, \* -1: null
    windowFetch,       \* window.fetch: 0 the native function, n > 0 wrapper n
    xhrOpen, xhrSend,  \* XMLHttpRequest.prototype.open and .send, likewise
    wrappers,          \* the wrapper functions created so far
    inflight,          \* outbound calls made, each with the observers attached to it
    netCalls,          \* number of outbound calls begun
    \* --- history, read by the properties only
    lastCall,          \* the operation that ran last and what it returned or answered
    lastRender,        \* the results of the annotateResults that built the live annotations
    lastScan,          \* the latest detectKeywords call of a startScan command
    \* --- a function of the detector applied on its own
    probe,             \* its arguments and, once applied, its value
    \* --- the transient highlight
    timers,            \* setTimeout callbacks not yet run, oldest first
    clicks,            \* clicks made so far
    lastHighlight      \* history: the element highlightElement was last called on, and
                       \* the time since

detectorVars == <<keywords, detectionResults, isDetecting, scanStep, scanThrown>>
annotatorVars == <<annotations, isEnabled, annotationCounter, classList, children,
                   injected, listeners, kwHandler>>
managerVars == <<currentResults, pending>>
netVars == <<isMonitoring, requestResults, originalFetch, originalXHROpen,
             windowFetch, xhrOpen, xhrSend, wrappers, inflight, netCalls>>
historyVars == <<lastCall, lastRender, lastScan>>
highlightVars == <<timers, clicks, lastHighlight>>
vars == <<rev, doc, detectorVars, annotatorVars, managerVars, netVars, historyVars,
          probe, highlightVars>>

(***************************************************************************)
(* The document as the scanner sees it.                                    *)
(***************************************************************************)
PageIds == 1..Len(doc)
IsPage(n) == n \in PageIds

\* document.contains(n)
DocumentContains(n) == IsPage(n) \/ n \in DOMAIN injected

TagOf(n) == IF IsPage(n) THEN doc[n].tag ELSE "DIV"
IsSvg(n) == IsPage(n) /\ doc[n].svg

n_class == <<"c", "l", "a", "s", "s">>
n_id == <<"i", "d">>
v_keyword_annotation ==
    <<"k", "e", "y", "w", "o", "r", "d", "-", "a", "n", "n", "o", "t", "a", "t",
      "i", "o", "n">>
v_keyword_tooltip ==
    <<"k", "e", "y", "w", "o", "r", "d", "-", "t", "o", "o", "l", "t", "i", "p">>
v_keyword_badge ==
    <<"k", "e", "y", "w", "o", "r", "d", "-", "b", "a", "d", "g", "e">>

\* element.attributes: the page's own, then the class attribute the Annotator
\* wrote, if any; an injected node carries its class attribute only.
Attributes(n) ==
    IF IsPage(n)
    THEN doc[n].attrs \o
         (IF classList[n] = {} THEN <<>> ELSE <<Attr(n_class, v_keyword_annotation)>>)
    ELSE <<Attr(n_class, IF injected[n].kind = "tooltip" THEN v_keyword_tooltip
                         ELSE v_keyword_badge)>>

HasAttribute(n, name) == \E i \in 1..Len(Attributes(n)) : Attributes(n)[i].name = name

\* element.getAttribute(name) || ''
GetAttribute(n, name) ==
    IF HasAttribute(n, name)
    THEN Attributes(n)[CHOOSE i \in 1..Len(Attributes(n)) :
                          /\ Attributes(n)[i].name = name
                          /\ \A j \in 1..(i - 1) : Attributes(n)[j].name # name].value
    ELSE <<>>

\* element.textContent: the element's own text nodes, then the text of the
\* nodes appended to it.
TextContent(n) ==
    IF IsPage(n)
    THEN Concat(doc[n].texts) \o
         Concat([j \in 1..Len(children[n]) |-> injected[children[n][j]].text])
    ELSE injected[n].text

\* document.querySelectorAll('*'), in document order.
AllElements == Concat([e \in 1..Len(doc) |-> <<e>> \o children[e]])

\* The text nodes the TreeWalker of getAllTextNodes accepts, in document order.
RejectedParents(rv) ==
    IF rv = "part_001" THEN {"SCRIPT", "STYLE", "NOSCRIPT"} ELSE {"SCRIPT", "STYLE"}

getAllTextNodes(rv) ==
    Concat([e \in 1..Len(doc) |->
        (IF doc[e].tag \in RejectedParents(rv) THEN <<>>
         ELSE [i \in 1..Len(doc[e].texts) |->
                  [parent |-> e, text |-> doc[e].texts[i]]])
        \o [j \in 1..Len(children[e]) |->
               [parent |-> children[e][j], text |-> injected[children[e][j]].text]]])


(***************************************************************************)
(* KeywordDetector: matching.                                              *)
(***************************************************************************)
\* text.toLowerCase().includes(keyword.toLowerCase())
containsKeyword(text, keyword) == includes(toLowerCase(text), toLowerCase(keyword))

\* s[i] of JavaScript, 0-based; past the end it is undefined.
CharAt(s, i) == IF i < Len(s) THEN s[i + 1] ELSE "undefined"

Max(a, b) == IF a >= b THEN a ELSE b
Abs(a) == IF a >= 0 THEN a ELSE 0 - a

\* a fuzzyMatch that is the exact test alone
fuzzyMatch_ExactOnly(text, keyword) == includes(toLowerCase(text), toLowerCase(keyword))

fuzzyMatch(text, keyword) ==
    LET textLower == toLowerCase(text)
        keywordLower == toLowerCase(keyword)
        maxLen == Max(Len(textLower), Len(keywordLower))
        differences ==
            Cardinality({i \in 0..(maxLen - 1) :
                            CharAt(textLower, i) # CharAt(keywordLower, i)})
    IN  \/ includes(textLower, keywordLower)
        \/ /\ Abs(Len(textLower) - Len(keywordLower)) <= 1
           /\ differences <= 1

skipAttributes ==
    { <<"s", "t", "y", "l", "e">>,
      <<"c", "l", "a", "s", "s">>,
      <<"i", "d">>,
      <<"d", "a", "t", "a", "-", "r", "e", "a", "c", "t", "i", "d">>,
      <<"d", "a", "t", "a", "-", "r", "e", "a", "c", "t", "-", "c", "h", "e", "c", "k", "s", "u", "m">>,
      <<"d", "a", "t", "a", "-", "r", "e", "a", "c", "t", "r", "o", "o", "t">>,
      <<"d", "a", "t", "a", "-", "t", "e", "s", "t", "i", "d">>,
      <<"a", "r", "i", "a", "-", "l", "a", "b", "e", "l">>,
      <<"a", "r", "i", "a", "-", "d", "e", "s", "c", "r", "i", "b", "e", "d", "b", "y">>,
      <<"a", "r", "i", "a", "-", "h", "i", "d", "d", "e", "n">>,
      <<"t", "a", "b", "i", "n", "d", "e", "x">>,
      <<"r", "o", "l", "e">>,
      <<"a", "u", "t", "o", "c", "o", "m", "p", "l", "e", "t", "e">>,
      <<"s", "p", "e", "l", "l", "c", "h", "e", "c", "k">>,
      <<"c", "o", "n", "t", "e", "n", "t", "e", "d", "i", "t", "a", "b", "l", "e">>,
      <<"d", "r", "a", "g", "g", "a", "b", "l", "e">>,
      <<"t", "r", "a", "n", "s", "l", "a", "t", "e">>,
      <<"d", "i", "r">>,
      <<"l", "a", "n", "g">>,
      <<"x", "m", "l", "n", "s">>,
      <<"x", "m", "l", ":", "l", "a", "n", "g">>,
      <<"x", "m", "l", ":", "s", "p", "a", "c", "e">> }

urlAttributes ==
    { <<"h", "r", "e", "f">>,
      <<"s", "r", "c">>,
      <<"a", "c", "t", "i", "o", "n">>,
      <<"f", "o", "r", "m", "a", "c", "t", "i", "o", "n">>,
      <<"d", "a", "t", "a", "-", "u", "r", "l">>,
      <<"d", "a", "t", "a", "-", "l", "i", "n", "k">>,
      <<"d", "a", "t", "a", "-", "h", "r", "e", "f">>,
      <<"d", "a", "t", "a", "-", "s", "r", "c">>,
      <<"d", "a", "t", "a", "-", "a", "c", "t", "i", "o", "n">>,
      <<"p", "o", "s", "t", "e", "r">>,
      <<"c", "i", "t", "e">>,
      <<"l", "o", "n", "g", "d", "e", "s", "c">>,
      <<"u", "s", "e", "m", "a", "p">>,
      <<"m", "a", "n", "i", "f", "e", "s", "t">>,
      <<"p", "i", "n", "g">>,
      <<"b", "a", "c", "k", "g", "r", "o", "u", "n", "d">>,
      <<"c", "o", "d", "e", "b", "a", "s", "e">>,
      <<"a", "r", "c", "h", "i", "v", "e">>,
      <<"c", "l", "a", "s", "s", "i", "d">>,
      <<"d", "a", "t", "a">>,
      <<"p", "r", "o", "f", "i", "l", "e">> }

AddressWords ==
    { <<"u", "r", "l">>, <<"l", "i", "n", "k">>, <<"h", "r", "e", "f">>,
      <<"s", "r", "c">>, <<"a", "c", "t", "i", "o", "n">>,
      <<"e", "n", "d", "p", "o", "i", "n", "t">> }

p_data == <<"d", "a", "t", "a", "-">>

p_aria == <<"a", "r", "i", "a", "-">>

\* the rule of the revision before (part_000 468-486): every data-* and
\* aria-* attribute is skipped, whatever its name goes on to say
shouldSkipAttribute_EveryData(attrName) ==
    \/ attrName \in { <<"s", "t", "y", "l", "e">>, <<"c", "l", "a", "s", "s">>,
                      <<"i", "d">>, <<"r", "o", "l", "e">>,
                      <<"t", "a", "b", "i", "n", "d", "e", "x">> }
    \/ startsWith(attrName, p_data)
    \/ startsWith(attrName, p_aria)

shouldSkipAttribute(attrName) ==
    LET attrLower == toLowerCase(attrName)
        addressLike == \E w \in AddressWords : includes(attrLower, w)
    IN  IF attrLower \in urlAttributes THEN FALSE
        ELSE IF addressLike THEN FALSE
        ELSE IF attrLower \in skipAttributes THEN TRUE
        ELSE IF startsWith(attrName, p_data) /\ ~addressLike THEN TRUE
        ELSE FALSE

(***************************************************************************)
(* KeywordDetector: the result store.                                      *)
(***************************************************************************)
\* generateCSSSelector throws on an element without id whose className is not
\* a string: element.className.split is not a function (SVG elements).
generateCSSSelectorThrows(el) == IsSvg(el) /\ GetAttribute(el, n_id) = <<>>

getElementLocation(rv, el) ==
    IF rv = "detector.js"
    THEN (IF generateCSSSelectorThrows(el) THEN "error" ELSE "ok")
    ELSE "ok"

Result(type, keyword, el, location) ==
    [type |-> type, keyword |-> keyword, element |-> el, location |-> location]

SameIdentity(a, b) ==
    a.element = b.element /\ a.keyword = b.keyword /\ a.type = b.type

\* The store after addDetectionResult(result), and whether the call threw.
Outcome(results, thrown) == [results |-> results, thrown |-> thrown]

addDetectionResult(rv, results, result) ==
    IF rv = "detector.js"
    THEN (IF \E i \in 1..Len(results) : SameIdentity(results[i], result)
          THEN Outcome(results, FALSE)
          ELSE Outcome(Append(results, result), FALSE))
    ELSE (IF generateCSSSelectorThrows(result.element)
          THEN Outcome(results, TRUE)
          ELSE Outcome(Append(results, result), FALSE))


(***************************************************************************)
(* KeywordDetector: the passes.  A pass is the sequence of things it does  *)
(* to the store, in order: add a result, or throw.                         *)
(***************************************************************************)
AddStep(result) == [throw |-> FALSE, result |-> result]
ThrowStep == [throw |-> TRUE, result |-> Result("none", <<>>, 0, "ok")]

RECURSIVE RunSteps(_, _, _)
RunSteps(rv, results, steps) ==
    IF steps = <<>> THEN Outcome(results, FALSE)
    ELSE IF Head(steps).throw THEN Outcome(results, TRUE)
    ELSE LET added == addDetectionResult(rv, results, Head(steps).result)
         IN  IF added.thrown THEN added
             ELSE RunSteps(rv, added.results, Tail(steps))

\* this.keywords.forEach(keyword => { if (matches(keyword)) addDetectionResult(..) }),
\* hits being the keywords that match, in order
KeywordSteps(rv, hits, type, el) ==
    [i \in 1..Len(hits) |->
        AddStep(Result(type, hits[i], el, getElementLocation(rv, el)))]

Select(tags) == SelectSeq(AllElements, LAMBDA el : TagOf(el) \in tags)

Or(a, b) == IF a # <<>> THEN a ELSE b

detectInTextContent(rv) ==
    LET textNodes == getAllTextNodes(rv)
    IN  Concat([n \in 1..Len(textNodes) |->
            LET text == trim(textNodes[n].text)
            IN  IF text = <<>> THEN <<>>
                ELSE KeywordSteps(rv,
                        SelectSeq(keywords, LAMBDA k : containsKeyword(text, k)),
                        "text", textNodes[n].parent)])

\* detector.js only.  link.href of an SVG anchor is no string: href.toLowerCase
\* throws for the first keyword.
detectInLinks(rv) ==
    LET links == SelectSeq(Select({"A", "a"}), LAMBDA el : HasAttribute(el, n_href))
    IN  Concat([n \in 1..Len(links) |->
            LET link == links[n]
                href == GetAttribute(link, n_href)
                text == trim(TextContent(link))
            IN  IF IsSvg(link) THEN <<ThrowStep>>
                ELSE KeywordSteps(rv,
                        SelectSeq(keywords,
                            LAMBDA k : containsKeyword(href, k) \/ containsKeyword(text, k)),
                        "link", link)])

\* element.tagName === 'LINK' && attr.name === 'href' ? 'link_href' : 'attribute'
AttributeResultType(element, attrName) ==
    IF TagOf(element) = "LINK" /\ attrName = n_href THEN "link_href" ELSE "attribute"

\* part_001 only.
detectInAllAttributes(rv) ==
    LET allElements == AllElements
    IN  Concat([n \in 1..Len(allElements) |->
            LET element == allElements[n]
                attrs == Attributes(element)
            IN  Concat([a \in 1..Len(attrs) |->
                    LET attrValue == toLowerCase(attrs[a].value)
                    IN  IF shouldSkipAttribute(attrs[a].name) THEN <<>>
                        ELSE KeywordSteps(rv,
                                SelectSeq(keywords, LAMBDA k : fuzzyMatch(attrValue, k)),
                                AttributeResultType(element, attrs[a].name),
                                element)])])

detectInImages(rv) ==
    LET images == SelectSeq(Select({"IMG"}),
                    LAMBDA el : HasAttribute(el, n_alt) \/ HasAttribute(el, n_title))
    IN  Concat([n \in 1..Len(images) |->
            LET img == images[n]
                alt == GetAttribute(img, n_alt)
                title == GetAttribute(img, n_title)
                src == GetAttribute(img, n_src)
            IN  IF rv = "detector.js"
                THEN KeywordSteps(rv,
                        SelectSeq(keywords,
                            LAMBDA k : \/ containsKeyword(alt, k)
                                       \/ containsKeyword(title, k)
                                       \/ containsKeyword(src, k)),
                        "image", img)
                ELSE KeywordSteps(rv,
                        SelectSeq(keywords, LAMBDA k : containsKeyword(Or(alt, title), k)),
                        "image", img)])

\* element.value || '': the value attribute of a control; an option without
\* one reports its text; a label has no value.
ElementValue(el) ==
    IF TagOf(el) = "LABEL" THEN <<>>
    ELSE IF TagOf(el) = "OPTION" /\ ~HasAttribute(el, n_value) THEN TextContent(el)
    ELSE GetAttribute(el, n_value)

\* element.placeholder || ''
ElementPlaceholder(el) ==
    IF TagOf(el) \in {"INPUT", "TEXTAREA"} THEN GetAttribute(el, n_placeholder) ELSE <<>>

detectInForms(rv) ==
    LET formElements ==
            IF rv = "detector.js" THEN Select({"INPUT", "TEXTAREA", "SELECT", "LABEL"})
            ELSE Select({"INPUT", "TEXTAREA", "SELECT", "OPTION"})
    IN  Concat([n \in 1..Len(formElements) |->
            LET element == formElements[n]
                value == ElementValue(element)
                placeholder == ElementPlaceholder(element)
                label == TextContent(element)
            IN  IF rv = "detector.js"
                THEN KeywordSteps(rv,
                        SelectSeq(keywords,
                            LAMBDA k : \/ containsKeyword(value, k)
                                       \/ containsKeyword(placeholder, k)
                                       \/ containsKeyword(label, k)),
                        "form", element)
                ELSE KeywordSteps(rv,
                        SelectSeq(keywords,
                            LAMBDA k : containsKeyword(Or(value, Or(placeholder, label)), k)),
                        "form", element)])

\* The passes of detectKeywords, in the order it awaits them.
NumPasses == 4

\* a detectKeywords that awaits the form pass first and the text pass last
PassSteps_FormsFirst(rv, n) ==
    CASE n = 1 -> detectInForms(rv)
      [] n = 2 -> IF rv = "detector.js" THEN detectInLinks(rv)
                  ELSE detectInAllAttributes(rv)
      [] n = 3 -> detectInImages(rv)
      [] n = 4 -> detectInTextContent(rv)

PassSteps(rv, n) ==
    CASE n = 1 -> detectInTextContent(rv)
      [] n = 2 -> IF rv = "detector.js" THEN detectInLinks(rv)
                  ELSE detectInAllAttributes(rv)
      [] n = 3 -> detectInImages(rv)
      [] n = 4 -> detectInForms(rv)

\* a clearResults that leaves the store as it is
clearResults_Keeps == detectionResults

\* this.detectionResults = []
clearResults == <<>>

\* keywords.filter(keyword => keyword.trim().length > 0)
setKeywords(input) == SelectSeq(input, LAMBDA k : Len(trim(k)) > 0)

getStatistics(results) ==
    LET keywordSet == {results[i].keyword : i \in 1..Len(results)}
        types == {results[i].type : i \in 1..Len(results)}
    IN  [ totalIssues |-> Len(results),
          uniqueKeywords |-> Cardinality(keywordSet),
          keywordList |-> keywordSet,
          typeBreakdown |->
              [t \in types |->
                  Cardinality({i \in 1..Len(results) : results[i].type = t})] ]


(***************************************************************************)
(* PageAnnotator.  Its operations are functions on the Annotator's fields  *)
(* and the part of the DOM it writes, gathered in one record.              *)
(***************************************************************************)
\* Created nodes and closures are named by the least numbers that name nothing
\* the state still refers to: `held' are the names referred to from outside
\* the Annotator's own fields.
AnnotatorState(held) ==
    [ annotations |-> annotations, annotationCounter |-> annotationCounter,
      classList |-> classList, children |-> children, injected |-> injected,
      listeners |-> listeners, kwHandler |-> kwHandler, held |-> held ]

NamesInUse(A) == PageIds \cup A.held \cup DOMAIN A.injected

\* the click handlers some element still carries
HandlersInUse(A) == UNION {Range(A.listeners[e]) : e \in DOMAIN A.listeners}

FreshName(inUse) == CHOOSE n \in 1..(Cardinality(inUse) + 1) : n \notin inUse

RemoveFrom(seq, x) == SelectSeq(seq, LAMBDA y : y # x)

\* listeners of an element after removeEventListener('click', h)
RemoveListener(seq, h) ==
    IF \E i \in 1..Len(seq) : seq[i] = h
    THEN LET i == CHOOSE j \in 1..Len(seq) : seq[j] = h
         IN  SubSeq(seq, 1, i - 1) \o SubSeq(seq, i + 1, Len(seq))
    ELSE seq

\* function f without x in its domain
Without(f, x) == [y \in DOMAIN f \ {x} |-> f[y]]

RemovedClasses ==
    {"keyword-annotation", "keyword-annotation-warning", "keyword-annotation-info",
     "keyword-highlight"}

\* node.remove(), guarded by node.parentNode
RemoveNode(A, element, node) ==
    IF node \in DOMAIN A.injected
    THEN [A EXCEPT !.injected = Without(@, node),
                   !.children[element] = RemoveFrom(@, node)]
    ELSE A

\* the body of the forEach of clearAnnotations, for one annotation
clearAnnotation(A, annotation) ==
    LET element == annotation.element
        A1 == [A EXCEPT !.classList[element] = @ \ RemovedClasses]
        A2 == RemoveNode(RemoveNode(A1, element, annotation.tooltip),
                         element, annotation.badge)
    IN  IF A2.kwHandler[element] # 0
        THEN [A2 EXCEPT !.listeners[element] = RemoveListener(@, A2.kwHandler[element]),
                        !.kwHandler[element] = 0]
        ELSE A2

RECURSIVE clearEach(_, _)
clearEach(A, todo) ==
    IF todo = <<>> THEN A ELSE clearEach(clearAnnotation(A, Head(todo)), Tail(todo))

\* clearAnnotations without this.annotations.clear()
clearAnnotations_KeepsMap(A) ==
    [clearEach(A, A.annotations) EXCEPT !.annotationCounter = 0]

clearAnnotations(A) ==
    [clearEach(A, A.annotations) EXCEPT !.annotations = <<>>, !.annotationCounter = 0]

getAnnotationType(resultType) ==
    CASE resultType = "text" -> "keyword-annotation"
      [] resultType = "link" -> "keyword-annotation-warning"
      [] resultType = "image" -> "keyword-annotation-info"
      [] resultType = "form" -> "keyword-annotation-warning"
      [] OTHER -> "keyword-annotation"

\* annotationType.replace('keyword-annotation-', '')
StylePart(annotationType) ==
    CASE annotationType = "keyword-annotation-warning" -> "warning"
      [] annotationType = "keyword-annotation-info" -> "info"
      [] OTHER -> annotationType

s_attribute == <<"a", "t", "t", "r", "i", "b", "u", "t", "e">>
s_link_href == <<"l", "i", "n", "k", "_", "h", "r", "e", "f">>

getTypeDisplayName(type) ==
    CASE type = "text" -> <<"U6587", "U672C", "U5185", "U5BB9">>
      [] type = "link" -> <<"U94FE", "U63A5", "U5730", "U5740">>
      [] type = "image" -> <<"U56FE", "U7247", "U4FE1", "U606F">>
      [] type = "form" -> <<"U8868", "U5355", "U5143", "U7D20">>
      [] type = "attribute" -> s_attribute
      [] type = "link_href" -> s_link_href

\* the textContent of the tooltip createTooltip builds
TooltipText(result) ==
    <<"U5173", "U952E", "U8BCD", ":", " ">> \o result.keyword
    \o <<" ", "|", " ", "U7C7B", "U578B", ":", " ">> \o getTypeDisplayName(result.type)

Annotation(element, result, tooltip, badge) ==
    [element |-> element, result |-> result, tooltip |-> tooltip, badge |-> badge]

\* The page elements are the only nodes annotateElement ever finds attached:
\* every injected node is removed by the clearAnnotations that precedes it
\* (invariant InjectedNodesTracked).
annotateElement(A, result, index) ==
    LET element == result.element
        annotationType == getAnnotationType(result.type)
        tooltip == FreshName(NamesInUse(A))
        badge == FreshName(NamesInUse(A) \cup {tooltip})
        clickHandler == FreshName(HandlersInUse(A))
    IN  IF ~(IsPage(element) \/ element \in DOMAIN A.injected) THEN A
        ELSE IF ~IsPage(element) THEN A
        ELSE [A EXCEPT
                !.classList[element] =
                    @ \cup {"keyword-annotation"} \cup
                    (IF annotationType # "keyword-annotation"
                     THEN {StylePart(annotationType)} ELSE {}),
                !.injected =
                    [n \in DOMAIN @ \cup {tooltip, badge} |->
                        IF n = tooltip THEN [kind |-> "tooltip", text |-> TooltipText(result)]
                        ELSE IF n = badge
                        THEN [kind |-> "badge", text |-> NumberToString(index)]
                        ELSE @[n]],
                !.children[element] = @ \o <<tooltip, badge>>,
                !.annotations = Append(@, Annotation(element, result, tooltip, badge)),
                !.annotationCounter = @ + 1,
                !.listeners[element] = Append(@, clickHandler),
                !.kwHandler[element] = clickHandler]

\* a forEach that ends at the first result whose element is not in the
\* document
RECURSIVE annotateEach_StopsAtDetached(_, _, _)
annotateEach_StopsAtDetached(A, results, index) ==
    IF index > Len(results) THEN A
    ELSE IF ~IsPage(results[index].element) THEN A
    ELSE annotateEach_StopsAtDetached(annotateElement(A, results[index], index),
                                      results, index + 1)

\* results.forEach((result, index) => this.annotateElement(result, index + 1))
RECURSIVE annotateEach(_, _, _)
annotateEach(A, results, index) ==
    IF index > Len(results) THEN A
    ELSE annotateEach(annotateElement(A, results[index], index), results, index + 1)

\* an annotateResults without the test of isEnabled
annotateResults_IgnoresEnabled(A, enabled, results) ==
    IF results = <<>> THEN clearAnnotations(A)
    ELSE annotateEach(clearAnnotations(A), results, 1)

annotateResults(A, enabled, results) ==
    IF ~enabled THEN A
    ELSE IF results = <<>> THEN clearAnnotations(A)
    ELSE annotateEach(clearAnnotations(A), results, 1)

\* The model follows the Annotator while no element carries more than
\* MaxListeners click listeners.
WithinListeners(A) == \A e \in DOMAIN A.listeners : Len(A.listeners[e]) <= MaxListeners

SetAnnotator(A) ==
    /\ annotations' = A.annotations
    /\ annotationCounter' = A.annotationCounter
    /\ classList' = A.classList
    /\ children' = A.children
    /\ injected' = A.injected
    /\ listeners' = A.listeners
    /\ kwHandler' = A.kwHandler


(***************************************************************************)
(* ContentScriptManager and the steps of detectKeywords.                   *)
(*                                                                         *)
(* Message handlers are tasks of the event loop: a command starts only     *)
(* when no detectKeywords is between two of its awaits (scanStep = 0).     *)
(* Between those awaits only code already running on the page can call in: *)
(* DetectKeywordsOverlap.  handleStartScan waits for the storage           *)
(* collaborator after it has rendered; other commands run meanwhile.       *)
(***************************************************************************)
\* the nodes a result list refers to
Refs(results) == {results[i].element : i \in 1..Len(results)}

\* the nodes the state refers to from outside the Annotator
NamesHeld ==
    Refs(detectionResults) \cup Refs(currentResults) \cup Refs(lastRender)
    \cup Refs(lastCall.results) \cup Refs(lastScan.results)
    \cup UNION {Refs(pending[i].results) : i \in 1..Len(pending)}

Identity(r) == <<r.type, r.keyword, r.element>>
Identities(results) == {Identity(results[i]) : i \in 1..Len(results)}

\* An operation that ran: its name, whether a pass threw in the scan it belongs
\* to, and the result list and statistics it returned or answered with.
Call(op, threw, results, statistics) ==
    [op |-> op, threw |-> threw, results |-> results, statistics |-> statistics]
NoStatistics == getStatistics(<<>>)

ScanRecord(kws, results) == [valid |-> TRUE, keywords |-> kws, results |-> results]
NoScan == [valid |-> FALSE, keywords |-> <<>>, results |-> <<>>]

\* detectKeywords without its finally block: the flag is reset on the normal
\* return only
FlagAfterScan_NoFinally(thrown) == thrown

\* detectKeywords' finally block
FlagAfterScan(thrown) == FALSE

\* what detectKeywords returns: the store, or [] from its catch block
ReturnOfScan(results, thrown) == IF thrown THEN <<>> ELSE results

\* whether the promise of detectKeywords rejects: its catch block returns
DetectRejects(thrown) == FALSE

\* what detectKeywords returns to a caller that finds isDetecting set
ReturnOnOverlap == detectionResults

\* annotator.annotateResults(results), within the node identities of the model
Render(results) ==
    LET A == annotateResults(AnnotatorState(NamesHeld \cup Refs(results)),
                             isEnabled, results)
    IN  /\ WithinListeners(A)
        /\ SetAnnotator(A)
        /\ lastRender' = IF isEnabled THEN results ELSE lastRender

\* handleStartScan from the return of detectKeywords to its wait on storage
AfterDetect(results, threw) ==
    /\ currentResults' = results
    /\ Render(results)
    /\ pending' = Append(pending, [results |-> results, threw |-> threw])
    /\ lastScan' = ScanRecord(keywords, results)
    /\ UNCHANGED isEnabled

\* handleStartScan up to the first await of detectKeywords
StartScan ==
    /\ scanStep = 0
    /\ Len(pending) < MaxPending
    /\ IF isDetecting
       THEN /\ AfterDetect(ReturnOnOverlap, FALSE)
            /\ lastCall' = Call("startScan:overlap", FALSE, ReturnOnOverlap, NoStatistics)
            /\ UNCHANGED detectorVars
       ELSE IF keywords = <<>>
       THEN /\ AfterDetect(<<>>, FALSE)
            /\ lastCall' = Call("startScan:nokeywords", FALSE, <<>>, NoStatistics)
            /\ UNCHANGED detectorVars
       ELSE LET pass == RunSteps(rev, <<>>, PassSteps(rev, 1))
            IN  /\ isDetecting' = TRUE
                /\ detectionResults' = pass.results
                /\ scanThrown' = pass.thrown
                /\ scanStep' = 1
                /\ lastCall' = Call("startScan:pass", pass.thrown, <<>>, NoStatistics)
                /\ UNCHANGED <<keywords, annotatorVars, managerVars, lastRender,
                               lastScan>>
    /\ UNCHANGED <<highlightVars, probe, rev, doc, netVars>>

\* detectKeywords resumes after an await and runs its next pass
ScanPass ==
    /\ scanStep \in 1..(NumPasses - 1)
    /\ ~scanThrown
    /\ LET pass == RunSteps(rev, detectionResults, PassSteps(rev, scanStep + 1))
       IN  /\ detectionResults' = pass.results
           /\ scanThrown' = pass.thrown
           /\ lastCall' = Call("startScan:pass", pass.thrown, <<>>, NoStatistics)
    /\ scanStep' = scanStep + 1
    /\ UNCHANGED <<highlightVars, probe, rev, doc, keywords, isDetecting, annotatorVars, managerVars, netVars,
                   lastRender, lastScan>>

\* detectKeywords returns (or its catch block does) and handleStartScan goes on
ScanFinish ==
    /\ scanStep >= 1
    /\ scanStep = NumPasses \/ scanThrown
    /\ IF DetectRejects(scanThrown)
       THEN \* the catch block of handleStartScan answers {success: false, error}
            /\ lastCall' = Call("startScan:failed", scanThrown, <<>>, NoStatistics)
            /\ UNCHANGED <<annotatorVars, managerVars, lastRender, lastScan>>
       ELSE LET results == ReturnOfScan(detectionResults, scanThrown)
            IN  /\ AfterDetect(results, scanThrown)
                /\ lastCall' = Call("startScan:return", scanThrown, results,
                                    NoStatistics)
    /\ isDetecting' = FlagAfterScan(scanThrown)
    /\ scanStep' = 0
    /\ scanThrown' = FALSE
    /\ UNCHANGED <<highlightVars, probe, rev, doc, keywords, detectionResults, netVars>>

\* another caller on the page calls detectKeywords() between two passes
DetectKeywordsOverlap ==
    /\ scanStep >= 1
    /\ isDetecting
    /\ lastCall' = Call("detectKeywords:overlap", FALSE, ReturnOnOverlap, NoStatistics)
    /\ UNCHANGED <<highlightVars, probe, rev, doc, detectorVars, annotatorVars, managerVars, netVars,
                   lastRender, lastScan>>

\* save helpers that let a failure of chrome.storage.local.set through
SaveRejects_Propagates(stored) == ~stored

\* whether the promise of saveKeywordsToStorage or saveResultsToStorage
\* rejects: both wrap the write in try/catch and only log
SaveRejects(stored) == FALSE

\* saveResultsToStorage settles, the write done or failed, and handleStartScan
\* answers {success: true, results, statistics}, or {success: false} from its
\* catch block
StartScanRespond ==
    /\ scanStep = 0
    /\ pending # <<>>
    /\ \E stored \in BOOLEAN :
          lastCall' = IF SaveRejects(stored)
                      THEN Call("startScan:failed", Head(pending).threw, <<>>,
                                NoStatistics)
                      ELSE Call(IF stored THEN "startScan:respond"
                                ELSE "startScan:respond:unsaved",
                                Head(pending).threw, Head(pending).results,
                                getStatistics(detectionResults))
    /\ pending' = Tail(pending)
    /\ UNCHANGED <<highlightVars, probe, rev, doc, detectorVars, annotatorVars, currentResults, netVars,
                   lastRender, lastScan>>

\* handleSetKeywords: the detector takes the list, then the write to storage
\* is done or fails, then the handler answers
SetKeywords(input) ==
    /\ scanStep = 0
    /\ keywords' = setKeywords(input)
    /\ \E stored \in BOOLEAN :
          lastCall' = Call(IF SaveRejects(stored) THEN "setKeywords:failed"
                           ELSE IF stored THEN "setKeywords"
                           ELSE "setKeywords:unsaved",
                           FALSE, <<>>, NoStatistics)
    /\ UNCHANGED <<highlightVars, probe, rev, doc, detectionResults, isDetecting, scanStep, scanThrown,
                   annotatorVars, currentResults, pending, netVars, lastRender,
                   lastScan>>

ToggleAnnotation(enabled) ==
    /\ scanStep = 0
    /\ isEnabled' = enabled
    /\ IF enabled
       THEN IF Len(currentResults) > 0
            THEN LET A == annotateResults(AnnotatorState(NamesHeld), TRUE,
                                          currentResults)
                 IN  /\ WithinListeners(A)
                     /\ SetAnnotator(A)
                     /\ lastRender' = currentResults
            ELSE UNCHANGED <<annotations, annotationCounter, classList, children,
                             injected, listeners, kwHandler, lastRender>>
       ELSE /\ SetAnnotator(clearAnnotations(AnnotatorState(NamesHeld)))
            /\ lastRender' = <<>>
    /\ lastCall' = Call(IF enabled THEN "toggleAnnotation:on" ELSE "toggleAnnotation:off",
                        FALSE, <<>>, NoStatistics)
    /\ UNCHANGED <<highlightVars, probe, rev, doc, detectorVars, currentResults, pending, netVars, lastScan>>

ClearResults ==
    /\ scanStep = 0
    /\ detectionResults' = clearResults
    /\ SetAnnotator(clearAnnotations(AnnotatorState(NamesHeld)))
    /\ currentResults' = <<>>
    /\ lastRender' = <<>>
    /\ lastCall' = Call("clearResults", FALSE, <<>>, NoStatistics)
    /\ UNCHANGED <<highlightVars, probe, rev, doc, keywords, isDetecting, scanStep, scanThrown, isEnabled,
                   pending, netVars, lastScan>>

GetResults ==
    /\ scanStep = 0
    /\ lastCall' = Call("getResults", FALSE, detectionResults,
                        getStatistics(detectionResults))
    /\ UNCHANGED <<highlightVars, probe, rev, doc, detectorVars, annotatorVars, currentResults, pending,
                   netVars, lastRender, lastScan>>

(***************************************************************************)
(* Specification of the scanner, the Annotator and the manager.            *)
(***************************************************************************)
\* no function is being applied on its own
NoProbe == [fn |-> "none", text |-> <<>>, keyword |-> <<>>, applied |-> FALSE,
            value |-> FALSE]

\* no timer is set and nothing has been clicked
NoTimers ==
    /\ timers = <<>>
    /\ clicks = 0
    /\ lastHighlight = [element |-> 0, age |-> 0]

NetIdle ==
    /\ isMonitoring = FALSE
    /\ requestResults = <<>>
    /\ originalFetch = -1
    /\ originalXHROpen = -1
    /\ windowFetch = 0
    /\ xhrOpen = 0
    /\ xhrSend = 0
    /\ wrappers = <<>>
    /\ inflight = <<>>
    /\ netCalls = 0

Init ==
    /\ rev \in Revisions
    /\ doc \in Docs
    /\ keywords = <<>>
    /\ detectionResults = <<>>
    /\ isDetecting = FALSE
    /\ scanStep = 0
    /\ scanThrown = FALSE
    /\ annotations = <<>>
    /\ isEnabled = TRUE
    /\ annotationCounter = 0
    /\ classList = [e \in 1..Len(doc) |-> {}]
    /\ children = [e \in 1..Len(doc) |-> <<>>]
    /\ injected = [n \in {} |-> 0]
    /\ listeners = [e \in 1..Len(doc) |-> <<>>]
    /\ kwHandler = [e \in 1..Len(doc) |-> 0]
    /\ currentResults = <<>>
    /\ pending = <<>>
    /\ NetIdle
    /\ NoTimers
    /\ lastCall = Call("none", FALSE, <<>>, NoStatistics)
    /\ lastRender = <<>>
    /\ lastScan = NoScan
    /\ probe = NoProbe

Next ==
    \/ StartScan
    \/ ScanPass
    \/ ScanFinish
    \/ DetectKeywordsOverlap
    \/ StartScanRespond
    \/ \E input \in KeywordInputs : SetKeywords(input)
    \/ \E enabled \in BOOLEAN : ToggleAnnotation(enabled)
    \/ ClearResults
    \/ GetResults

Spec == Init /\ [][Next]_vars


(***************************************************************************)
(* NetworkMonitor.                                                         *)
(***************************************************************************)
Native == 0
Null == -1
PreviewLength == 200

v_api == <<"x", ".", "c", "o", "m", "/", "a", "p", "i">>
b_casino == <<"q", "=", "c", "a", "s", "i", "n", "o">>
k_q == <<"q">>
s_undefined == <<"u", "n", "d", "e", "f", "i", "n", "e", "d">>

NoBody == [kind |-> "none", text |-> <<>>, entries |-> <<>>]
StringBody(text) == [kind |-> "string", text |-> text, entries |-> <<>>]
FormDataBody(entries) == [kind |-> "FormData", text |-> <<>>, entries |-> entries]

Urls == {v_url, v_api}
Bodies == {NoBody, StringBody(b_casino), FormDataBody(<< <<k_q, kw_casino>> >>)}
\* What the original call ends with: a response whose body reads as `text' or
\* cannot be read, or a network error.
Response(ok, readable, text, error) ==
    [ok |-> ok, readable |-> readable, text |-> text, error |-> error]
NoResponse == Response(FALSE, FALSE, <<>>, "")
Responses == {Response(TRUE, TRUE, t_Casino, ""), Response(TRUE, TRUE, <<>>, ""),
              Response(TRUE, FALSE, <<>>, ""),
              Response(FALSE, FALSE, <<>>, "TypeError: Failed to fetch")}

\* a promise: pending, resolved with a response, or rejected with an error
Promise(kind, value) == [kind |-> kind, value |-> value]
NotSettled == Promise("pending", NoResponse)
Settled(response) == Promise(IF response.ok THEN "resolved" ELSE "rejected", response)

\* a fetch wrapper whose catch callback returns instead of throwing again
ThenCatch_Swallows(promise) ==
    Promise("resolved", IF promise.kind = "resolved" THEN promise.value ELSE NoResponse)

\* .then(response => { self.checkResponse(response.clone(), ..); return response })
\* .catch(error => { throw error })
ThenCatch(promise) ==
    CASE promise.kind = "resolved" -> Promise("resolved", promise.value)
      [] promise.kind = "rejected" -> Promise("rejected", promise.value)
      [] OTHER -> promise

\* the promise the caller holds, the call having gone through n fetch wrappers
RECURSIVE Through(_, _)
Through(promise, n) == IF n = 0 THEN promise ELSE Through(ThenCatch(promise), n - 1)

NetworkResult(type, keyword, url, method, content) ==
    [type |-> type, keyword |-> keyword, url |-> url, method |-> method,
     content |-> content]

\* text.substring(0, 200) + (text.length > 200 ? '...' : '')
Preview(text) ==
    SubSeq(text, 1, IF Len(text) < PreviewLength THEN Len(text) ELSE PreviewLength)
    \o (IF Len(text) > PreviewLength THEN <<".", ".", ".">> ELSE <<>>)

\* the results one check adds to requestResults through addNetworkResult
KeywordResults(text, type, url, method, label) ==
    LET hits == SelectSeq(keywords, LAMBDA k : containsKeyword(text, k))
    IN  [i \in 1..Len(hits) |->
            NetworkResult(type, hits[i], url, method, label \o Preview(text))]

checkRequestUrl(url, type) ==
    IF url = <<>> THEN <<>>
    ELSE [i \in 1..Len(SelectSeq(keywords, LAMBDA k : containsKeyword(url, k))) |->
            NetworkResult("request_url",
                          SelectSeq(keywords, LAMBDA k : containsKeyword(url, k))[i],
                          url, type,
                          <<"U8BF7", "U6C42", "U", "R", "L", ":", " ">> \o url)]

\* for (let [key, value] of body.entries()) bodyText += `${key}=${value}&`
BodyText(body) ==
    IF body.kind = "string" THEN body.text
    ELSE Concat([i \in 1..Len(body.entries) |->
                    body.entries[i][1] \o <<"=">> \o body.entries[i][2] \o <<"&">>])

checkRequestBody(body, url, type) ==
    IF body.kind = "none" \/ (body.kind = "string" /\ body.text = <<>>) THEN <<>>
    ELSE KeywordResults(BodyText(body), "request_body", url, type,
                        <<"U8BF7", "U6C42", "U53C2", "U6570", ":", " ">>)

checkResponseText(text, url, type) ==
    IF text = <<>> THEN <<>>
    ELSE KeywordResults(text, "response", url, type,
                        <<"U54CD", "U5E94", "U5185", "U5BB9", ":", " ">>)

\* checkResponse: a failure of response.text() is swallowed
checkResponse(response, url, type) ==
    IF response.readable THEN checkResponseText(response.text, url, type) ELSE <<>>

Wrapper(kind, originalSend) == [kind |-> kind, originalSend |-> originalSend]

\* interceptFetch and interceptXHR: three new functions, named by their
\* position in `wrappers'
\* a start that installs its wrappers whether or not monitoring is on
AlreadyMonitoring_Never == FALSE

\* if (this.isMonitoring) return;
AlreadyMonitoring == isMonitoring

NetStart ==
    /\ Len(wrappers) < 3 * MaxStarts
    /\ IF AlreadyMonitoring
       THEN UNCHANGED <<isMonitoring, originalFetch, originalXHROpen, windowFetch,
                        xhrOpen, xhrSend, wrappers>>
       ELSE /\ isMonitoring' = TRUE
            /\ originalFetch' = windowFetch
            /\ windowFetch' = Len(wrappers) + 1
            /\ originalXHROpen' = xhrOpen
            /\ xhrOpen' = Len(wrappers) + 2
            /\ xhrSend' = Len(wrappers) + 3
            /\ wrappers' = wrappers \o <<Wrapper("fetch", Null), Wrapper("open", Null),
                                         Wrapper("send", xhrSend)>>
    /\ lastCall' = Call(IF isMonitoring THEN "start:again" ELSE "start", FALSE, <<>>,
                        NoStatistics)
    /\ UNCHANGED <<highlightVars, probe, rev, doc, detectorVars, annotatorVars, managerVars, requestResults,
                   inflight, netCalls, lastRender, lastScan>>

\* what restoreXHR puts back
RestoredSend == xhrSend

\* restoreFetch and restoreXHR
NetStop ==
    /\ IF ~isMonitoring
       THEN UNCHANGED <<isMonitoring, windowFetch, xhrOpen, xhrSend>>
       ELSE /\ isMonitoring' = FALSE
            /\ windowFetch' = IF originalFetch # Null THEN originalFetch ELSE windowFetch
            /\ xhrOpen' = IF originalXHROpen # Null THEN originalXHROpen ELSE xhrOpen
            /\ xhrSend' = RestoredSend
    /\ lastCall' = Call(IF isMonitoring THEN "stop" ELSE "stop:again", FALSE, <<>>,
                        NoStatistics)
    /\ UNCHANGED <<highlightVars, probe, rev, doc, detectorVars, annotatorVars, managerVars, requestResults,
                   originalFetch, originalXHROpen, wrappers, inflight, netCalls,
                   lastRender, lastScan>>

\* The chain of functions a call of f runs through, outermost first, down to
\* the native one: a fetch or open wrapper calls self.originalFetch or
\* self.originalXHROpen as they are when it runs, a send wrapper the function
\* it captured when it was created.
RECURSIVE Layers(_)
Layers(f) ==
    IF f = Native \/ f = Null THEN <<>>
    ELSE <<f>> \o Layers(CASE wrappers[f].kind = "fetch" -> originalFetch
                           [] wrappers[f].kind = "open" -> originalXHROpen
                           [] wrappers[f].kind = "send" -> wrappers[f].originalSend)

\* An outbound call: `observers' wrappers watch for its response; once done,
\* `response' is what the original call ended with, `caller' what the caller
\* of fetch got, and `reading' counts the checkResponse calls that await
\* response.text().
Request(api, url, observers, sent) ==
    [api |-> api, url |-> url, observers |-> observers, sent |-> sent, done |-> FALSE,
     response |-> NoResponse, caller |-> NotSettled, reading |-> 0]

\* a page script calls fetch(url, {body})
CallFetch(url, body) ==
    /\ netCalls < MaxCalls
    /\ netCalls' = netCalls + 1
    /\ LET layers == Layers(windowFetch)
           added == Concat([i \in 1..Len(layers) |->
                        checkRequestUrl(url, <<"f", "e", "t", "c", "h">>)
                        \o checkRequestBody(body, url, <<"f", "e", "t", "c", "h">>)])
       IN  /\ requestResults' = requestResults \o added
           /\ inflight' = Append(inflight, Request("fetch", url, Len(layers), TRUE))
           /\ lastCall' = Call("fetch", FALSE, added, NoStatistics)
    /\ UNCHANGED <<highlightVars, probe, rev, doc, detectorVars, annotatorVars, managerVars, isMonitoring,
                   originalFetch, originalXHROpen, windowFetch, xhrOpen, xhrSend,
                   wrappers, lastRender, lastScan>>

\* a page script calls xhr.open(method, url) on a new XMLHttpRequest
CallXhrOpen(url) ==
    /\ netCalls < MaxCalls
    /\ netCalls' = netCalls + 1
    /\ LET layers == Layers(xhrOpen)
           added == Concat([i \in 1..Len(layers) |->
                        checkRequestUrl(url, <<"x", "h", "r">>)])
       IN  /\ requestResults' = requestResults \o added
           /\ inflight' = Append(inflight,
                              Request("xhr", IF layers = <<>> THEN s_undefined ELSE url,
                                      Len(layers), FALSE))
           /\ lastCall' = Call("open", FALSE, added, NoStatistics)
    /\ UNCHANGED <<highlightVars, probe, rev, doc, detectorVars, annotatorVars, managerVars, isMonitoring,
                   originalFetch, originalXHROpen, windowFetch, xhrOpen, xhrSend,
                   wrappers, lastRender, lastScan>>

\* the page script calls xhr.send(body) on an opened XMLHttpRequest; the url
\* of the request is this._url, which only an open wrapper sets
CallXhrSend(i, body) ==
    /\ i \in 1..Len(inflight)
    /\ inflight[i].api = "xhr"
    /\ ~inflight[i].sent
    /\ LET layers == Layers(xhrSend)
           added == Concat([j \in 1..Len(layers) |->
                        checkRequestBody(body, inflight[i].url, <<"x", "h", "r">>)])
       IN  /\ requestResults' = requestResults \o added
           /\ lastCall' = Call("send", FALSE, added, NoStatistics)
    /\ inflight' = [inflight EXCEPT ![i].sent = TRUE]
    /\ UNCHANGED <<highlightVars, probe, rev, doc, detectorVars, annotatorVars, managerVars, isMonitoring,
                   originalFetch, originalXHROpen, windowFetch, xhrOpen, xhrSend,
                   wrappers, netCalls, lastRender, lastScan>>

\* The original call ends.  fetch: the then- or catch-callback of every wrapper
\* the call went through runs, a then-callback starting checkResponse, and the
\* caller's promise settles.  XHR: on success the load listeners that open
\* wrappers attached run.
Complete(i, response) ==
    /\ i \in 1..Len(inflight)
    /\ inflight[i].sent
    /\ ~inflight[i].done
    /\ LET r == inflight[i]
           added == IF r.api = "xhr" /\ response.ok
                    THEN Concat([j \in 1..r.observers |->
                            checkResponseText(response.text, r.url, <<"x", "h", "r">>)])
                    ELSE <<>>
       IN  /\ requestResults' = requestResults \o added
           /\ lastCall' = Call("response", FALSE, added, NoStatistics)
           /\ inflight' = [inflight EXCEPT
                  ![i].done = TRUE,
                  ![i].response = response,
                  ![i].caller = IF r.api = "fetch"
                                THEN Through(Settled(response), r.observers)
                                ELSE Settled(response),
                  ![i].reading = IF r.api = "fetch" /\ response.ok
                                 THEN r.observers ELSE 0]
    /\ UNCHANGED <<highlightVars, probe, rev, doc, detectorVars, annotatorVars, managerVars, isMonitoring,
                   originalFetch, originalXHROpen, windowFetch, xhrOpen, xhrSend,
                   wrappers, netCalls, lastRender, lastScan>>

\* response.text() of the clones settles and the checkResponse calls go on
BodyRead(i) ==
    /\ i \in 1..Len(inflight)
    /\ inflight[i].reading > 0
    /\ LET r == inflight[i]
           added == Concat([j \in 1..r.reading |->
                        checkResponse(r.response, r.url, <<"f", "e", "t", "c", "h">>)])
       IN  /\ requestResults' = requestResults \o added
           /\ lastCall' = Call("bodyRead", FALSE, added, NoStatistics)
    /\ inflight' = [inflight EXCEPT ![i].reading = 0]
    /\ UNCHANGED <<highlightVars, probe, rev, doc, detectorVars, annotatorVars, managerVars, isMonitoring,
                   originalFetch, originalXHROpen, windowFetch, xhrOpen, xhrSend,
                   wrappers, netCalls, lastRender, lastScan>>

\* The monitor is created on a detector whose keywords are set.
InitNet ==
    /\ rev = "detector.js"
    /\ doc = DocAnchor
    /\ keywords \in {setKeywords(input) : input \in KeywordInputs}
    /\ detectionResults = <<>>
    /\ isDetecting = FALSE
    /\ scanStep = 0
    /\ scanThrown = FALSE
    /\ annotations = <<>>
    /\ isEnabled = TRUE
    /\ annotationCounter = 0
    /\ classList = [e \in 1..Len(doc) |-> {}]
    /\ children = [e \in 1..Len(doc) |-> <<>>]
    /\ injected = [n \in {} |-> 0]
    /\ listeners = [e \in 1..Len(doc) |-> <<>>]
    /\ kwHandler = [e \in 1..Len(doc) |-> 0]
    /\ currentResults = <<>>
    /\ pending = <<>>
    /\ NetIdle
    /\ NoTimers
    /\ lastCall = Call("none", FALSE, <<>>, NoStatistics)
    /\ lastRender = <<>>
    /\ lastScan = NoScan
    /\ probe = NoProbe

NextNet ==
    \/ NetStart
    \/ NetStop
    \/ \E url \in Urls, body \in Bodies : CallFetch(url, body)
    \/ \E url \in Urls : CallXhrOpen(url)
    \/ \E i \in 1..MaxCalls, body \in Bodies : CallXhrSend(i, body)
    \/ \E i \in 1..MaxCalls, response \in Responses : Complete(i, response)
    \/ \E i \in 1..MaxCalls : BodyRead(i)

SpecNet == InitNet /\ [][NextNet]_vars


(***************************************************************************)
(* fuzzyMatch applied to texts and keywords of its own.                    *)
(***************************************************************************)
\* Length of the generated texts and keywords.
MaxLen == 3

w_keyword == <<"k", "e", "y", "w", "o", "r", "d">>
w_keywrd == <<"k", "e", "y", "w", "r", "d">>
w_keyward == <<"k", "e", "y", "w", "a", "r", "d">>
w_Keywords == <<"K", "e", "y", "w", "o", "r", "d", "s">>
w_keywor == <<"k", "e", "y", "w", "o", "r">>
w_eyword == <<"e", "y", "w", "o", "r", "d">>
w_abc == <<"a", "b", "c">>
w_xyz == <<"x", "y", "z">>

\* the strings over {a, b, B} of length n
RECURSIVE WordsOfLength(_)
WordsOfLength(n) ==
    IF n = 0 THEN {<<>>}
    ELSE {<<c>> \o w : c \in {"a", "b", "B"}, w \in WordsOfLength(n - 1)}

Words == UNION {WordsOfLength(n) : n \in 0..MaxLen}

MatchTexts ==
    Words \cup {w_keyword, w_keywrd, w_keyward, w_Keywords, w_keywor, w_eyword, w_abc}
MatchKeywords == (Words \ {<<>>}) \cup {w_keyword, w_xyz}

\* Everything but the document, the keywords and the probe, as constructed.
Constructed ==
    /\ detectionResults = <<>>
    /\ isDetecting = FALSE
    /\ scanStep = 0
    /\ scanThrown = FALSE
    /\ annotations = <<>>
    /\ isEnabled = TRUE
    /\ annotationCounter = 0
    /\ classList = [e \in 1..Len(doc) |-> {}]
    /\ children = [e \in 1..Len(doc) |-> <<>>]
    /\ injected = [n \in {} |-> 0]
    /\ listeners = [e \in 1..Len(doc) |-> <<>>]
    /\ kwHandler = [e \in 1..Len(doc) |-> 0]
    /\ currentResults = <<>>
    /\ pending = <<>>
    /\ NetIdle
    /\ NoTimers
    /\ lastCall = Call("none", FALSE, <<>>, NoStatistics)
    /\ lastRender = <<>>
    /\ lastScan = NoScan

\* attribute names shouldSkipAttribute is applied to
AttributeNames ==
    { <<"s", "t", "y", "l", "e">>,
      <<"c", "l", "a", "s", "s">>,
      <<"i", "d">>,
      <<"r", "o", "l", "e">>,
      <<"t", "a", "b", "i", "n", "d", "e", "x">>,
      <<"l", "a", "n", "g">>,
      <<"t", "i", "t", "l", "e">>,
      <<"d", "a", "t", "a", "-", "t", "e", "s", "t", "i", "d">>,
      <<"d", "a", "t", "a", "-", "f", "o", "o">>,
      <<"d", "a", "t", "a", "-", "u", "r", "l">>,
      <<"d", "a", "t", "a", "-", "e", "n", "d", "p", "o", "i", "n", "t">>,
      <<"a", "r", "i", "a", "-", "l", "a", "b", "e", "l">>,
      <<"a", "r", "i", "a", "-", "v", "a", "l", "u", "e", "t", "e", "x", "t">>,
      <<"a", "r", "i", "a", "-", "l", "i", "n", "k">>,
      <<"h", "r", "e", "f">>,
      <<"s", "r", "c">>,
      <<"a", "c", "t", "i", "o", "n">>,
      <<"f", "o", "r", "m", "a", "c", "t", "i", "o", "n">>,
      <<"s", "r", "c", "s", "e", "t">>,
      <<"x", "-", "u", "r", "l">> }

InitMatch ==
    /\ rev = "part_001"
    /\ doc = DocAttrs
    /\ keywords = <<>>
    /\ Constructed
    /\ \/ \E text \in MatchTexts, keyword \in MatchKeywords :
             probe = [fn |-> "fuzzyMatch", text |-> text, keyword |-> keyword,
                      applied |-> FALSE, value |-> FALSE]
       \/ \E attrName \in AttributeNames :
             probe = [fn |-> "shouldSkipAttribute", text |-> attrName,
                      keyword |-> <<>>, applied |-> FALSE, value |-> FALSE]

\* this.fuzzyMatch(attrValue, keyword)
ApplyFuzzyMatch ==
    /\ probe.fn = "fuzzyMatch"
    /\ ~probe.applied
    /\ probe' = [probe EXCEPT !.applied = TRUE,
                              !.value = fuzzyMatch(probe.text, probe.keyword)]
    /\ UNCHANGED <<rev, doc, detectorVars, annotatorVars, managerVars, netVars,
                   historyVars, highlightVars>>

\* this.shouldSkipAttribute(attr.name)
ApplyShouldSkipAttribute ==
    /\ probe.fn = "shouldSkipAttribute"
    /\ ~probe.applied
    /\ probe' = [probe EXCEPT !.applied = TRUE,
                              !.value = shouldSkipAttribute(probe.text)]
    /\ UNCHANGED <<rev, doc, detectorVars, annotatorVars, managerVars, netVars,
                   historyVars, highlightVars>>

NextMatch ==
    \/ ApplyFuzzyMatch
    \/ ApplyShouldSkipAttribute

SpecMatch == InitMatch /\ [][NextMatch]_vars


(***************************************************************************)
(* The transient highlight: clicks on annotated elements and the timers    *)
(* highlightElement sets.  Time advances in steps of one second.           *)
(***************************************************************************)
\* setTimeout(..., 3000), in seconds
HighlightDelay == 3

\* the results rendered on the page that is clicked on
HighlightResults ==
    <<Result("text", kw_casino, 1, "ok"), Result("text", kw_casino, 2, "ok")>>

\* the fields of a new PageAnnotator on a page of n elements
NewAnnotator(n) ==
    [ annotations |-> <<>>, annotationCounter |-> 0,
      classList |-> [e \in 1..n |-> {}], children |-> [e \in 1..n |-> <<>>],
      injected |-> [x \in {} |-> 0], listeners |-> [e \in 1..n |-> <<>>],
      kwHandler |-> [e \in 1..n |-> 0], held |-> {} ]

\* a highlightElement that leaves the highlight of the other elements
highlightElement_Stacks(classes, element) ==
    [classes EXCEPT ![element] = @ \cup {"keyword-highlight"}]

\* the class lists after document.querySelectorAll('.keyword-highlight')
\* .forEach(el => el.classList.remove(..)); element.classList.add(..)
highlightElement(classes, element) ==
    [e \in DOMAIN classes |->
        IF e = element THEN classes[e] \cup {"keyword-highlight"}
        ELSE classes[e] \ {"keyword-highlight"}]

Timer(element) == [element |-> element, remaining |-> HighlightDelay]

\* the page after annotateResults(HighlightResults)
InitHighlight ==
    /\ rev = "detector.js"
    /\ doc = DocText
    /\ keywords = <<kw_casino>>
    /\ detectionResults = HighlightResults
    /\ isDetecting = FALSE
    /\ scanStep = 0
    /\ scanThrown = FALSE
    /\ isEnabled = TRUE
    /\ LET A == annotateResults(NewAnnotator(Len(DocText)), TRUE, HighlightResults)
       IN  /\ annotations = A.annotations
           /\ annotationCounter = A.annotationCounter
           /\ classList = A.classList
           /\ children = A.children
           /\ injected = A.injected
           /\ listeners = A.listeners
           /\ kwHandler = A.kwHandler
    /\ currentResults = HighlightResults
    /\ pending = <<>>
    /\ NetIdle
    /\ NoTimers
    /\ lastCall = Call("none", FALSE, <<>>, NoStatistics)
    /\ lastRender = HighlightResults
    /\ lastScan = ScanRecord(<<kw_casino>>, HighlightResults)
    /\ probe = NoProbe

\* a click on an annotated element: every click listener it carries calls
\* highlightElement(element), which also sets a timer
Click(element) ==
    /\ clicks < MaxClicks
    /\ element \in DOMAIN listeners
    /\ listeners[element] # <<>>
    /\ classList' = highlightElement(classList, element)
    /\ timers' = timers \o [i \in 1..Len(listeners[element]) |-> Timer(element)]
    /\ clicks' = clicks + 1
    /\ lastHighlight' = [element |-> element, age |-> 0]
    /\ UNCHANGED <<probe, rev, doc, detectorVars, annotations, isEnabled,
                   annotationCounter, children, injected, listeners, kwHandler,
                   managerVars, netVars, historyVars>>

\* a second passes while no timer is due
Tick ==
    /\ \A i \in 1..Len(timers) : timers[i].remaining > 0
    /\ timers # <<>> \/ lastHighlight.age < HighlightDelay
    /\ timers' = [i \in 1..Len(timers) |->
                    [timers[i] EXCEPT !.remaining = @ - 1]]
    /\ lastHighlight' = [lastHighlight EXCEPT
                            !.age = IF @ < HighlightDelay THEN @ + 1 ELSE @]
    /\ UNCHANGED <<probe, rev, doc, detectorVars, annotatorVars, managerVars, netVars,
                   historyVars, clicks>>

\* the oldest timer is due: element.classList.remove('keyword-highlight')
TimerFires ==
    /\ timers # <<>>
    /\ Head(timers).remaining = 0
    /\ classList' = [classList EXCEPT
                        ![Head(timers).element] = @ \ {"keyword-highlight"}]
    /\ timers' = Tail(timers)
    /\ UNCHANGED <<probe, rev, doc, detectorVars, annotations, isEnabled,
                   annotationCounter, children, injected, listeners, kwHandler,
                   managerVars, netVars, historyVars, clicks, lastHighlight>>

NextHighlight ==
    \/ \E element \in 1..Len(DocText) : Click(element)
    \/ Tick
    \/ TimerFires

SpecHighlight == InitHighlight /\ [][NextHighlight]_vars

\* time passes and a due timer runs
SpecHighlightLive ==
    SpecHighlight /\ WF_vars(Tick) /\ WF_vars(TimerFires)


(***************************************************************************)
(* Properties.                                                             *)
(***************************************************************************)
\* Every injected node is the tooltip or the badge of a live annotation, so
\* the clearAnnotations that opens a render detaches all of them.
InjectedNodesTracked ==
    DOMAIN injected =
        {annotations[i].tooltip : i \in 1..Len(annotations)}
        \cup {annotations[i].badge : i \in 1..Len(annotations)}

\* C1: the result store never holds two results with the same type, keyword
\* and source element.
C1_NoDuplicateResults ==
    \A i, j \in 1..Len(detectionResults) :
        SameIdentity(detectionResults[i], detectionResults[j]) => i = j

\* C2: a detectKeywords call made while a scan is in flight starts no second
\* pass, is not queued, and returns the result set of the previous completed
\* scan (here: one that ran with the same keywords and found results).
C2_OverlapReturnsPreviousScan ==
    [][lastCall'.op = "detectKeywords:overlap"
        => /\ UNCHANGED <<detectionResults, scanStep, pending>>
           /\ (lastScan.results # <<>> /\ lastScan.keywords = keywords)
                 => lastCall'.results = lastScan.results]_vars


\* C3: when the monitor is stopped, fetch and the XHR open and send methods
\* are the original functions, and an outbound call adds no result to the
\* monitor's list.
C3_StopRestoresPrimitives ==
    ~isMonitoring =>
        /\ windowFetch = Native
        /\ xhrOpen = Native
        /\ xhrSend = Native
        /\ lastCall.op \in {"fetch", "open", "send"} => lastCall.results = <<>>

\* C4: once the Annotator holds no annotation (after clear() or render([])),
\* no injected tooltip or badge is left and every element has its
\* pre-annotation class list.
C4_TeardownComplete ==
    annotations = <<>> =>
        /\ DOMAIN injected = {}
        /\ \A e \in PageIds : classList[e] = {} /\ children[e] = <<>>

\* C5: a startScan with the keywords of the previous startScan yields the same
\* set of (type, keyword, source node) as that one.
C5_RescanDeterministic ==
    [][(lastScan.valid /\ lastScan'.keywords = lastScan.keywords)
        => Identities(lastScan'.results) = Identities(lastScan.results)]_vars

LiveResults == [i \in 1..Len(annotations) |-> annotations[i].result]

\* C6: the live annotations are exactly those of the most recent render, one
\* for each of its results whose node was attached, and there is none after a
\* clear or a disable.
C6_LiveSetIsLastRender ==
    /\ LiveResults = SelectSeq(lastRender, LAMBDA r : IsPage(r.element))
    /\ lastCall.op \in {"clearResults", "toggleAnnotation:off"} => annotations = <<>>
    /\ ~isEnabled => annotations = <<>>

\* a render that replaced an earlier one: its list holds a result found on a
\* tooltip of the earlier render, detached by now
C6_Witness ==
    /\ lastCall.op = "startScan:return"
    /\ annotations # <<>>
    /\ \E i \in 1..Len(lastRender) : ~IsPage(lastRender[i].element)

\* C7: every click listener on an element is the handler of one of its live
\* annotations; none is left from an annotation that is gone.
C7_NoHandlerRemains ==
    \A e \in PageIds :
        Len(listeners[e]) = Cardinality({i \in 1..Len(annotations) :
                                            annotations[i].element = e})

\* C8: a startScan whose scan had a pass throw is not answered with
\* success: true.
C8_ThrowAnswersFailure ==
    lastCall.op \in {"startScan:respond", "startScan:respond:unsaved"}
        => ~lastCall.threw

\* C9: when no scan is running the flag isDetecting is false, whether the
\* last scan returned normally or threw, and no startScan takes the overlap
\* path.
C9_FlagResetAfterScan ==
    /\ scanStep = 0 => ~isDetecting
    /\ lastCall.op # "startScan:overlap"

\* a scan in which a pass threw has terminated
C9_Witness ==
    /\ lastCall.op = "startScan:return"
    /\ lastCall.threw
    /\ ~isDetecting
    /\ scanStep = 0

HasResult(results, type, keyword, el) ==
    \E i \in 1..Len(results) : Identity(results[i]) = <<type, keyword, el>>

\* C10: with keyword "casino", a scan that completes reports a link_href
\* result for every anchor whose href contains the keyword, and a text result
\* too if the anchor's text contains it.
C10_AnchorHrefIsLinkHref ==
    (/\ lastCall.op = "startScan:return"
     /\ ~lastCall.threw
     /\ keywords = <<kw_casino>>)
    => \A el \in PageIds :
          (TagOf(el) = "A" /\ containsKeyword(GetAttribute(el, n_href), kw_casino))
          => /\ HasResult(lastCall.results, "link_href", kw_casino, el)
             /\ containsKeyword(Concat(doc[el].texts), kw_casino)
                   => HasResult(lastCall.results, "text", kw_casino, el)


\* C11: tolerant matching accepts a text that is the keyword with one
\* character missing: fuzzyMatch("keywrd", "keyword") is true.
C11_OneCharacterMissing ==
    (probe.applied /\ probe.text = w_keywrd /\ probe.keyword = w_keyword)
        => probe.value


CountResults(results, type, keyword, el) ==
    Cardinality({i \in 1..Len(results) : Identity(results[i]) = <<type, keyword, el>>})

\* the attributes of el whose value matches the keyword
MatchingAttributes(el, keyword) ==
    {Attributes(el)[a].name : a \in {i \in 1..Len(Attributes(el)) :
        fuzzyMatch(toLowerCase(Attributes(el)[i].value), keyword)}}

\* C12: in the attribute pass the name data-testid is skipped and the name
\* data-url is not, so an element whose matching attributes are
\* data-testid="casino" and data-url="casino.com" gets exactly one attribute
\* result for keyword casino.
C12_DataUrlOverridesSkip ==
    /\ shouldSkipAttribute(n_data_testid)
    /\ ~shouldSkipAttribute(n_data_url)
    /\ (/\ lastCall.op = "startScan:return"
        /\ ~lastCall.threw
        /\ rev = "part_001"
        /\ keywords = <<kw_casino>>)
       => \A el \in PageIds :
            MatchingAttributes(el, kw_casino) = {n_data_testid, n_data_url}
            => CountResults(lastCall.results, "attribute", kw_casino, el) = 1

\* a scan of such an element has returned
C12_Witness ==
    /\ lastCall.op = "startScan:return"
    /\ ~lastCall.threw
    /\ rev = "part_001"
    /\ keywords = <<kw_casino>>
    /\ \E el \in PageIds :
          /\ MatchingAttributes(el, kw_casino) = {n_data_testid, n_data_url}
          /\ HasResult(lastCall.results, "attribute", kw_casino, el)


\* C13: the caller of a wrapped fetch gets what the original call ended with,
\* the same response or the same error, as soon as that call ends and before
\* the response body is read; a body that cannot be read adds no result and
\* leaves the caller's outcome as it was.
C13_FetchIsTransparent ==
    [][ /\ \A i \in 1..Len(inflight') :
              (inflight'[i].api = "fetch" /\ inflight'[i].done)
              => inflight'[i].caller = Settled(inflight'[i].response)
        /\ \A i \in 1..Len(inflight) :
              (inflight[i].reading > 0 /\ inflight'[i].reading = 0
                  /\ ~inflight[i].response.readable)
              => requestResults' = requestResults
      ]_vars

\* the caller of a wrapped fetch holds the response while its body, which
\* will turn out unreadable, is still being read
C13_Witness ==
    \E i \in 1..Len(inflight) :
        /\ inflight[i].api = "fetch"
        /\ inflight[i].observers > 0
        /\ inflight[i].reading > 0
        /\ inflight[i].caller.kind = "resolved"
        /\ ~inflight[i].response.readable


\* the functions installed as fetch, XMLHttpRequest open and send, and what
\* the monitor remembers of the ones it replaced
Primitives == <<isMonitoring, windowFetch, xhrOpen, xhrSend, originalFetch,
                originalXHROpen, wrappers>>

\* C14: start and stop are idempotent: a start while monitoring is on, and a
\* stop while it is off, change neither the installed fetch, open and send nor
\* anything the monitor holds, so start; start; stop ends as start; stop does.
C14_StartStopIdempotent ==
    [][ /\ (lastCall'.op \in {"start", "start:again"} /\ isMonitoring)
              => UNCHANGED <<Primitives, requestResults, inflight>>
        /\ (lastCall'.op \in {"stop", "stop:again"} /\ ~isMonitoring)
              => UNCHANGED <<Primitives, requestResults, inflight>>
      ]_vars

\* start has just been called with monitoring on and a request under way
C14_Witness ==
    /\ lastCall.op = "start:again"
    /\ isMonitoring
    /\ Len(wrappers) = 3
    /\ Len(inflight) > 0


\* C15: getResults, called when no startScan is waiting to answer, returns the
\* list of the latest startScan response, or the empty list if clearResults
\* ran after that scan.
C15_GetResultsIsLastScan ==
    (lastCall.op = "getResults" /\ pending = <<>>)
       => lastCall.results = currentResults


\* the sum of the counts of a type breakdown
RECURSIVE SumOf(_, _)
SumOf(breakdown, types) ==
    IF types = {} THEN 0
    ELSE LET t == CHOOSE x \in types : TRUE
         IN  breakdown[t] + SumOf(breakdown, types \ {t})

\* statistics that describe a list of results
StatisticsOf(statistics, results) ==
    /\ statistics.totalIssues = Len(results)
    /\ SumOf(statistics.typeBreakdown, DOMAIN statistics.typeBreakdown)
          = statistics.totalIssues
    /\ statistics.uniqueKeywords = Cardinality(statistics.keywordList)
    /\ statistics.keywordList = {results[i].keyword : i \in 1..Len(results)}

\* C16: the statistics of a startScan or getResults response describe the
\* result list of that same response.
C16_StatisticsMatchResults ==
    lastCall.op \in {"startScan:respond", "startScan:respond:unsaved", "getResults"}
       => StatisticsOf(lastCall.statistics, lastCall.results)


\* C17: a clearResults command leaves the result store empty and the
\* Annotator without a live annotation or an injected node, and a getResults
\* that follows it answers no results and a total of zero.
C17_ClearEmptiesStoreAndAnnotator ==
    [][ /\ lastCall'.op = "clearResults"
              => /\ detectionResults' = <<>>
                 /\ getStatistics(detectionResults').totalIssues = 0
                 /\ annotations' = <<>>
                 /\ DOMAIN injected' = {}
        /\ (lastCall.op = "clearResults" /\ lastCall'.op = "getResults")
              => /\ lastCall'.results = <<>>
                 /\ lastCall'.statistics.totalIssues = 0
      ]_vars

\* clearResults has just run after a scan that found something and whose
\* results had been rendered, while that scan still waits to answer
C17_Witness ==
    /\ lastCall.op = "clearResults"
    /\ lastScan.results # <<>>
    /\ pending # <<>>
    /\ \E e \in DOMAIN classList : classList[e] # {}


\* C18: after setKeywords every active keyword is non-empty, has no space
\* at either end, and occurs once.
C18_KeywordsNormalized ==
    lastCall.op \in {"setKeywords", "setKeywords:unsaved"}
       => /\ \A i \in 1..Len(keywords) :
                 keywords[i] # <<>> /\ trim(keywords[i]) = keywords[i]
          /\ \A i, j \in 1..Len(keywords) : keywords[i] = keywords[j] => i = j


\* C19: toggleAnnotation(false) removes every annotation and injected node,
\* none exists for as long as annotation stays disabled, whatever is scanned
\* or rendered meanwhile, and toggleAnnotation(true) leaves the page
\* annotated with the results the manager holds from the last scan.
C19_ToggleClearsAndRerenders ==
    /\ lastCall.op = "toggleAnnotation:off"
          => ~isEnabled /\ annotations = <<>> /\ DOMAIN injected = {}
    /\ ~isEnabled => annotations = <<>> /\ DOMAIN injected = {}
    /\ lastCall.op = "toggleAnnotation:on"
          => /\ isEnabled
             /\ LiveResults = SelectSeq(currentResults, LAMBDA r : IsPage(r.element))

\* annotation has just been enabled and the results of the last scan, which
\* has answered, are annotated again
C19_Witness ==
    /\ lastCall.op = "toggleAnnotation:on"
    /\ pending = <<>>
    /\ currentResults # <<>>
    /\ currentResults = lastScan.results
    /\ Len(annotations) = Len(currentResults)


\* C20: a failed write to storage fails neither command: no setKeywords or
\* startScan answers failure because of it; a setKeywords whose write failed
\* has given the detector the filtered list of one of the lists sent, and a
\* startScan whose write failed answers with the results its scan returned.
C20_StorageFailureIsHarmless ==
    [][ /\ lastCall'.op \notin {"setKeywords:failed", "startScan:failed"}
        /\ lastCall'.op = "setKeywords:unsaved" /\ lastCall' # lastCall
              => \E input \in KeywordInputs : keywords' = setKeywords(input)
        /\ lastCall'.op = "startScan:respond:unsaved" /\ pending' # pending
              => /\ lastCall'.results = Head(pending).results
                 /\ Len(pending) = 1 => lastCall'.results = lastScan.results
      ]_vars

\* a startScan that found something has answered although the write of its
\* results failed
C20_Witness ==
    /\ lastCall.op = "startScan:respond:unsaved"
    /\ ~lastCall.threw
    /\ lastCall.results # <<>>
    /\ lastCall.results = detectionResults


\* the place of a result type in the order of the passes; the link results of
\* detector.js come from its second pass, as attribute results do in part_001
TypeRank(type) ==
    CASE type = "text" -> 1
      [] type \in {"attribute", "link_href", "link"} -> 2
      [] type = "image" -> 3
      [] type = "form" -> 4

InPassOrder(results) ==
    \A i, j \in 1..Len(results) :
        i < j => TypeRank(results[i].type) <= TypeRank(results[j].type)

\* C21: in the list a completed scan returns, and in the store at any time,
\* text results come before attribute and link_href results, these before
\* image results, and these before form results.
C21_ResultsInPassOrder ==
    /\ InPassOrder(detectionResults)
    /\ lastCall.op = "startScan:return" => InPassOrder(lastCall.results)

\* a completed scan has returned results of two passes
C21_Witness ==
    /\ lastCall.op = "startScan:return"
    /\ ~lastCall.threw
    /\ \E i, j \in 1..Len(lastCall.results) :
          TypeRank(lastCall.results[i].type) < TypeRank(lastCall.results[j].type)


Highlighted(e) == "keyword-highlight" \in classList[e]

HighlightNodes == 1..Len(DocText)

\* C22: at most one element carries the highlight class at any time, and an
\* element that carries it loses it again.
C22_OneTransientHighlight ==
    /\ [](Cardinality({e \in HighlightNodes : Highlighted(e)}) <= 1)
    /\ \A e \in HighlightNodes : Highlighted(e) ~> ~Highlighted(e)

\* an element has been clicked while another one was highlighted, and carries
\* the highlight
C22_Witness ==
    /\ clicks >= 2
    /\ \E e \in HighlightNodes :
          /\ Highlighted(e)
          /\ \E i \in 1..Len(timers) : timers[i].element # e

\* C30: since the last click fewer seconds than the delay have passed and no
\* other element was highlighted: the clicked element carries the highlight.
C30_HighlightLastsFullDelay ==
    (lastHighlight.element # 0 /\ lastHighlight.age < HighlightDelay)
       => Highlighted(lastHighlight.element)


\* the positions, in a rendered list, of the results whose element is part of
\* the page
AttachedPositions(results) ==
    SelectSeq([i \in 1..Len(results) |-> i], LAMBDA i : IsPage(results[i].element))

\* C23: the live annotations are those of the results of the rendered list
\* whose element is in the document, every one of them, in order, and the
\* badge of each shows the 1-based position of its result in that list.
C23_BadgeIsPositionInList ==
    LET pos == AttachedPositions(lastRender)
    IN  /\ Len(annotations) = Len(pos)
        /\ \A k \in 1..Len(annotations) :
              /\ annotations[k].result = lastRender[pos[k]]
              /\ annotations[k].badge \in DOMAIN injected
              /\ injected[annotations[k].badge].kind = "badge"
              /\ injected[annotations[k].badge].text = NumberToString(pos[k])

\* a render has skipped a result whose node had been removed and annotated a
\* later one, whose badge number is its position in the list
C23_Witness ==
    /\ \E i \in 1..Len(lastRender) : ~IsPage(lastRender[i].element)
    /\ \E k \in 1..Len(annotations) :
          injected[annotations[k].badge].text # NumberToString(k)


\* C24: shouldSkipAttribute is false for href, src, action, formaction and
\* for every name containing url, link, href, src, action or endpoint; for
\* any other name it is true if the name is style, class, id, role, tabindex
\* or lang, or begins with data- or aria-.
C24_SkipPolicy ==
    (probe.applied /\ probe.fn = "shouldSkipAttribute")
       => LET attrName == probe.text
              address ==
                  \/ attrName \in { <<"h", "r", "e", "f">>, <<"s", "r", "c">>,
                                    <<"a", "c", "t", "i", "o", "n">>,
                                    <<"f", "o", "r", "m", "a", "c", "t", "i", "o", "n">> }
                  \/ \E w \in AddressWords : includes(attrName, w)
              cosmetic ==
                  \/ attrName \in { <<"s", "t", "y", "l", "e">>, <<"c", "l", "a", "s", "s">>,
                                    <<"i", "d">>, <<"r", "o", "l", "e">>,
                                    <<"t", "a", "b", "i", "n", "d", "e", "x">>,
                                    <<"l", "a", "n", "g">> }
                  \/ startsWith(attrName, p_data)
                  \/ startsWith(attrName, p_aria)
          IN  /\ address => ~probe.value
              /\ (cosmetic /\ ~address) => probe.value


\* C25: a scan that completes reports a form result for every control and
\* keyword such that the control's value, its placeholder or its text
\* contains the keyword, whatever the other two are.
C25_FormCandidatesIndependent ==
    (lastCall.op = "startScan:return" /\ ~lastCall.threw)
    => \A el \in PageIds : \A k \in Range(keywords) :
          (/\ TagOf(el) \in {"INPUT", "TEXTAREA", "SELECT"}
           /\ \/ containsKeyword(ElementValue(el), k)
              \/ containsKeyword(ElementPlaceholder(el), k)
              \/ containsKeyword(TextContent(el), k))
          => HasResult(lastCall.results, "form", k, el)

\* C26: a scan that completes reports an image result for every image with
\* an alt or title attribute and keyword such that the alt text, the title or
\* the src contains the keyword, whatever the other two are.
C26_ImageCandidatesIndependent ==
    (lastCall.op = "startScan:return" /\ ~lastCall.threw)
    => \A el \in PageIds : \A k \in Range(keywords) :
          (/\ TagOf(el) = "IMG"
           /\ HasAttribute(el, n_alt) \/ HasAttribute(el, n_title)
           /\ \/ containsKeyword(GetAttribute(el, n_alt), k)
              \/ containsKeyword(GetAttribute(el, n_title), k)
              \/ containsKeyword(GetAttribute(el, n_src), k))
          => HasResult(lastCall.results, "image", k, el)


\* a pass throws for another reason than the location of an element
ThrowsElsewhere ==
    rev = "detector.js"
    /\ \E i \in 1..Len(detectInLinks(rev)) : detectInLinks(rev)[i].throw

\* C27: a scan on a page with an element whose location cannot be computed
\* does not fail, and reports the text results of the other elements.
C27_LocationFailureIsNotFatal ==
    (/\ lastCall.op = "startScan:return"
     /\ ~ThrowsElsewhere
     /\ \E el \in PageIds : generateCSSSelectorThrows(el))
    => /\ ~lastCall.threw
       /\ \A el \in PageIds : \A k \in Range(keywords) :
             (/\ ~generateCSSSelectorThrows(el)
              /\ TagOf(el) \notin RejectedParents(rev)
              /\ \E i \in 1..Len(doc[el].texts) : containsKeyword(doc[el].texts[i], k))
             => HasResult(lastCall.results, "text", k, el)


\* the positions, up to the longer length, at which two strings do not carry
\* the same character
Mismatches(a, b) ==
    Cardinality({i \in 1..Max(Len(a), Len(b)) :
                    i > Len(a) \/ i > Len(b) \/ a[i] # b[i]})

C29_SendWrapperNotStacked ==
    isMonitoring
       => /\ Len(Layers(xhrSend)) = 1
          /\ lastCall.op = "send"
                => \A k \in Range(keywords) :
                      Cardinality({i \in 1..Len(lastCall.results) :
                                      /\ lastCall.results[i].type = "request_body"
                                      /\ lastCall.results[i].keyword = k}) <= 1

==========================================================================
